---------------------------- MODULE Spec2Model ----------------------------
(***************************************************************************)
(* A model of cherab/mastu: the equilibrium time-slice lookup and the      *)
(* boundary-polygon sanitiser of equilibrium.py, and the bolometer camera  *)
(* loader of load_detectors.py.                                            *)
(*                                                                         *)
(* Times are integers: one unit is 0.02 s, so the sample times             *)
(* [0.0, 0.1, 0.2, 0.3] are <<0, 5, 10, 15>> and the query 0.24 is 12.     *)
(* Indices are 0-based as in the source: At(a, i) reads a[i] of numpy.     *)
(***************************************************************************)
EXTENDS Integers, Sequences, FiniteSets, TLC

VARIABLES
    self,   \* the equilibrium-series object (its attributes), or NoObject
    call,   \* the operation invoked last and its arguments
    ret,    \* what that operation returned or raised
    io      \* the external effects so far (archive client, mesh files), in order

vars == <<self, call, ret, io>>

-----------------------------------------------------------------------------
(* Bounds of the model *)

\* _find_nearest as a function: sample values 0..MaxFindTime, at most MaxFindLen samples
MaxFindTime == 15
MaxFindLen == 4

\* _process_efit_lcfs_polygon as a function: coordinates 0..MaxCoord, at most MaxPts points
MaxCoord == 1
MaxPts == 5

\* the equilibrium-series object: sample times 0..MaxObjTime, at most MaxLcfsPts
\* archived LCFS points and MaxLimiterPts archived limiter points
MaxObjTime == 1
MaxLcfsPts == 4
MaxLimiterPts == 2

\* the bolometer archive: at most MaxFoils foils
MaxFoils == 2
MaxGridValue == 1
MaxBothTime == 4
MaxPulseOffset == 30

-----------------------------------------------------------------------------
(* Values *)

NoObject == [cls |-> "none"]
Pending == [kind |-> "pending"]
Returned(v) == [kind |-> "return", value |-> v]
Raised(exc, msg) == [kind |-> "raise", exc |-> exc, msg |-> msg]

MsgFindRange == "Requested value is outside the range of the data."
MsgNumpyBounds == "index is out of bounds for axis 0"
MsgNumpyEmpty == "zero-size array to reduction operation"

SeqsUpTo(S, n) == UNION {[1..k -> S] : k \in 0..n}

\* numpy arrays the searches run on are in ascending order
Ascending(a) == \A i \in 1..(Len(a) - 1) : a[i] <= a[i + 1]

StrictlyAscending(a) == \A i \in 1..(Len(a) - 1) : a[i] < a[i + 1]

\* array.min(), array.max() of a non-empty array
ArrayMin(a) == CHOOSE x \in {a[i] : i \in 1..Len(a)} : \A j \in 1..Len(a) : x <= a[j]

ArrayMax(a) == CHOOSE x \in {a[i] : i \in 1..Len(a)} : \A j \in 1..Len(a) : x >= a[j]

\* a[i] with a 0-based index
At(a, i) == a[i + 1]

-----------------------------------------------------------------------------
(* MASTEquilibrium._find_nearest / MASTUEquilibrium._find_nearest *)

\* np.searchsorted(array, value, side="left") on an ascending array: the first
\* index i with value <= array[i], i.e. the number of samples below value
searchsorted_left(array, value) ==
    Cardinality({i \in 1..Len(array) : array[i] < value})

find_nearest_compare(d0, d1) == d0 * d0 < d1 * d1

outside_range_below_only(array, value) == value < ArrayMin(array)

\* value < array.min() or value > array.max()
outside_range(array, value) == value < ArrayMin(array) \/ value > ArrayMax(array)

find_nearest(array, value) ==
    IF Len(array) = 0
    THEN Raised("ValueError", MsgNumpyEmpty)
    ELSE IF outside_range(array, value)
    THEN Raised("IndexError", MsgFindRange)
    ELSE LET index == searchsorted_left(array, value) IN
         \* array[index] and array[index + 1] are both read
         IF index + 1 >= Len(array)
         THEN Raised("IndexError", MsgNumpyBounds)
         ELSE IF find_nearest_compare(value - At(array, index), value - At(array, index + 1))
              THEN Returned(index)
              ELSE Returned(index + 1)

\* The helper as called directly: the arguments are drawn at the start
FindArrays == {a \in SeqsUpTo(0..MaxFindTime, MaxFindLen) : Ascending(a)}

FindValues == (0 - 1)..(MaxFindTime + 1)

InitFind ==
    /\ self = NoObject
    /\ io = <<>>
    /\ ret = Pending
    /\ \E a \in FindArrays, v \in FindValues :
          call = [op |-> "_find_nearest", array |-> a, value |-> v]

MAST_find_nearest ==
    /\ ret = Pending
    /\ call.op = "_find_nearest"
    /\ ret' = find_nearest(call.array, call.value)
    /\ call' = [call EXCEPT !.op = "MASTEquilibrium._find_nearest"]
    /\ UNCHANGED <<self, io>>

MASTU_find_nearest ==
    /\ ret = Pending
    /\ call.op = "_find_nearest"
    /\ ret' = find_nearest(call.array, call.value)
    /\ call' = [call EXCEPT !.op = "MASTUEquilibrium._find_nearest"]
    /\ UNCHANGED <<self, io>>

NextFind == MAST_find_nearest \/ MASTU_find_nearest

SpecFind == InitFind /\ [][NextFind]_vars

-----------------------------------------------------------------------------
(* C1: for an ascending sample array and a query inside [min, max],         *)
(* _find_nearest returns the index of the sample nearest to the query, the  *)
(* later index when two samples are equally near; samples                   *)
(* [0.0, 0.1, 0.2, 0.3] with query 0.24 give index 2.                       *)

AbsDiff(x, y) == IF x >= y THEN x - y ELSE y - x

FindDone == call.op \in {"MASTEquilibrium._find_nearest", "MASTUEquilibrium._find_nearest"}

InRange(a, v) == Len(a) > 0 /\ ArrayMin(a) <= v /\ v <= ArrayMax(a)

\* i is a nearest sample of a to v, and the last of the nearest ones
NearestLater(a, v, i) ==
    /\ i \in 0..(Len(a) - 1)
    /\ \A j \in 0..(Len(a) - 1) :
          /\ AbsDiff(At(a, i), v) <= AbsDiff(At(a, j), v)
          /\ AbsDiff(At(a, i), v) = AbsDiff(At(a, j), v) => j <= i

C1_NearestIndex ==
    (FindDone /\ InRange(call.array, call.value)) =>
        /\ ret.kind = "return"
        /\ NearestLater(call.array, call.value, ret.value)
        /\ (call.array = <<0, 5, 10, 15>> /\ call.value = 12) => ret.value = 2

-----------------------------------------------------------------------------
(* MASTEquilibrium._process_efit_lcfs_polygon *)

MsgPolyShape == "EFIT LCFS polygon coordinate arrays are inconsistent in length."
MsgPolyFew == "EFIT LCFS polygon coordinate contain less than 2 points."

\* poly_r.shape != poly_z.shape, for 1-D arrays
shape_differs(poly_r, poly_z) == Len(poly_r) # Len(poly_z)

too_few_at_one(n) == n < 1

too_few(n) == n < 2

\* unique = (poly_r != poly_r[0]) | (poly_z != poly_z[0]); unique[0] = True
unique_mask_and(poly_r, poly_z) ==
    [i \in 1..Len(poly_r) |->
        i = 1 \/ (poly_r[i] # poly_r[1] /\ poly_z[i] # poly_z[1])]

unique_mask_first_dropped(poly_r, poly_z) ==
    [i \in 1..Len(poly_r) |-> poly_r[i] # poly_r[1] \/ poly_z[i] # poly_z[1]]

unique_mask(poly_r, poly_z) ==
    [i \in 1..Len(poly_r) |->
        i = 1 \/ (poly_r[i] # poly_r[1] \/ poly_z[i] # poly_z[1])]

\* a[mask]: the entries of a where mask is True, in order
boolean_index(a, mask) ==
    LET kept == SelectSeq([i \in 1..Len(a) |-> i], LAMBDA i : mask[i])
    IN  [k \in 1..Len(kept) |-> a[kept[k]]]

\* the N x 2 array poly_coords: row k is <<r, z>>
poly_coords(poly_r, poly_z) == [k \in 1..Len(poly_r) |-> <<poly_r[k], poly_z[k]>>]

process_efit_lcfs_polygon(poly_r, poly_z) ==
    IF shape_differs(poly_r, poly_z)
    THEN Raised("ValueError", MsgPolyShape)
    ELSE IF too_few(Len(poly_r))
    THEN Raised("ValueError", MsgPolyFew)
    ELSE LET unique == unique_mask(poly_r, poly_z) IN
         Returned(poly_coords(boolean_index(poly_r, unique),
                              boolean_index(poly_z, unique)))

\* The sanitiser as called directly: the two coordinate arrays are drawn at the start
CoordArrays == SeqsUpTo(0..MaxCoord, MaxPts)

InitPoly ==
    /\ self = NoObject
    /\ io = <<>>
    /\ ret = Pending
    /\ \E r \in CoordArrays, z \in CoordArrays :
          call = [op |-> "pending", poly_r |-> r, poly_z |-> z]

MAST_process_efit_lcfs_polygon ==
    /\ ret = Pending
    /\ call.op = "pending"
    /\ ret' = process_efit_lcfs_polygon(call.poly_r, call.poly_z)
    /\ call' = [call EXCEPT !.op = "_process_efit_lcfs_polygon"]
    /\ UNCHANGED <<self, io>>

NextPoly == MAST_process_efit_lcfs_polygon

SpecPoly == InitPoly /\ [][NextPoly]_vars

PolyDone == call.op = "_process_efit_lcfs_polygon"

\* the input as a list of points (equal lengths)
InputPoints == [k \in 1..Len(call.poly_r) |-> <<call.poly_r[k], call.poly_z[k]>>]

ClosedInput ==
    /\ PolyDone
    /\ Len(call.poly_r) = Len(call.poly_z)
    /\ Len(call.poly_r) >= 3
    /\ InputPoints[1] = InputPoints[Len(InputPoints)]

\* the number of points after the first that repeat the first
RepeatsOfFirst == Cardinality({k \in 2..Len(InputPoints) : InputPoints[k] = InputPoints[1]})

(* C4 as stated: a closed polygon of N >= 3 points gives N-1 points, the    *)
(* first one the original first vertex and the last one not a duplicate of  *)
(* the first.                                                               *)
C4_ClosedGivesNMinus1 ==
    ClosedInput =>
        /\ ret.kind = "return"
        /\ Len(ret.value) = Len(InputPoints) - 1
        /\ ret.value[1] = InputPoints[1]
        /\ ret.value[Len(ret.value)] # InputPoints[1]

(* C4 as amended: a closed polygon of N >= 3 points gives N - d points,     *)
(* where d >= 1 counts the points after the first that equal the first      *)
(* vertex (N-1 points exactly when only the closing vertex repeats it); the *)
(* first point is the original first vertex and no later point of the       *)
(* result equals it.                                                        *)
C4_ClosedDropsEveryRepeat ==
    ClosedInput =>
        /\ ret.kind = "return"
        /\ RepeatsOfFirst >= 1
        /\ Len(ret.value) = Len(InputPoints) - RepeatsOfFirst
        /\ (RepeatsOfFirst = 1 <=> Len(ret.value) = Len(InputPoints) - 1)
        /\ ret.value[1] = InputPoints[1]
        /\ \A k \in 2..Len(ret.value) : ret.value[k] # InputPoints[1]
        /\ (call.poly_r = <<0, 1, 1, 0, 0>> /\ call.poly_z = <<0, 0, 1, 1, 0>>) =>
              ret.value = <<<<0, 0>>, <<1, 0>>, <<1, 1>>, <<0, 1>>>>

\* a closed polygon that passes through its first vertex in the middle: two
\* points are dropped, not one
C4_Witness ==
    /\ PolyDone
    /\ call.poly_r = <<0, 1, 0, 1, 0>>
    /\ call.poly_z = <<0, 0, 0, 1, 0>>
    /\ ret = Returned(<<<<0, 0>>, <<1, 0>>, <<1, 1>>>>)

(* C6: arrays of different lengths raise the shape-mismatch ValueError,     *)
(* arrays of equal length below 2 raise the too-few-points ValueError, and  *)
(* in neither case is a polygon returned.                                   *)
C6_ShapeAndCountErrors ==
    PolyDone =>
        /\ Len(call.poly_r) # Len(call.poly_z) => ret = Raised("ValueError", MsgPolyShape)
        /\ (Len(call.poly_r) = Len(call.poly_z) /\ Len(call.poly_r) < 2) =>
              ret = Raised("ValueError", MsgPolyFew)

\* one point in each array: the lengths agree and the count check raises
C6_Witness ==
    /\ PolyDone
    /\ Len(call.poly_r) = 1
    /\ Len(call.poly_z) = 1
    /\ ret = Raised("ValueError", MsgPolyFew)

(* C7: a polygon that is returned has at least 2 points; an input whose     *)
(* points all coincide with the first ends in the too-few-points error.     *)
C7_ReturnedHasTwoPoints ==
    PolyDone =>
        /\ ret.kind = "return" => Len(ret.value) >= 2
        /\ (/\ Len(call.poly_r) = Len(call.poly_z)
            /\ \A k \in 1..Len(InputPoints) : InputPoints[k] = InputPoints[1]) =>
              ret = Raised("ValueError", MsgPolyFew)

(* C8: for equal-length inputs of at least 2 points the result is the first *)
(* point followed, in the original order, by every later point that differs *)
(* from the first in at least one coordinate; repeats among the later       *)
(* points are kept.                                                         *)
RECURSIVE LaterPointsKept(_, _)
LaterPointsKept(points, first) ==
    IF points = <<>> THEN <<>>
    ELSE IF Head(points) = first
         THEN LaterPointsKept(Tail(points), first)
         ELSE <<Head(points)>> \o LaterPointsKept(Tail(points), first)

C8_FirstThenDiffering ==
    (PolyDone /\ Len(call.poly_r) = Len(call.poly_z) /\ Len(call.poly_r) >= 2) =>
        ret = Returned(<<InputPoints[1]>> \o LaterPointsKept(Tail(InputPoints), InputPoints[1]))

\* an interior repeat is kept, a copy of the first point in the middle is dropped
C8_Witness ==
    /\ PolyDone
    /\ call.poly_r = <<0, 1, 1, 0, 0>>
    /\ call.poly_z = <<0, 0, 0, 0, 1>>
    /\ ret = Returned(<<<<0, 0>>, <<1, 0>>, <<1, 0>>, <<0, 1>>>>)

-----------------------------------------------------------------------------
(* The equilibrium-series objects after __init__ *)

MsgTimeRange == "Requested time lies outside the range of the data: [{}, {}]s."
MsgNumpyAxis1 == "index 0 is out of bounds for axis 1 with size 0"

\* the ValueError of time(): the message is formatted with the two bounds
RangeError(lo, hi) ==
    [kind |-> "raise", exc |-> "ValueError", msg |-> MsgTimeRange, bounds |-> <<lo, hi>>]

\* an attribute that does not exist yet is <<>>, one that holds v is <<v>>
NoAttr == <<>>
Attr(v) == <<v>>

\* the archived boundary points the objects are built from
ObjPoints == {<<0, 0>>, <<1, 0>>}

PointSeqs(n) == SeqsUpTo(ObjPoints, n)

Rs(points) == [k \in 1..Len(points) |-> points[k][1]]
Zs(points) == [k \in 1..Len(points) |-> points[k][2]]

\* a row of the archive's 2-D LCFS arrays: the points, then padding up to the width
Padded(xs, width) == [k \in 1..width |-> IF k <= Len(xs) THEN xs[k] ELSE 0]

\* the time base of psi is strictly ascending and not empty
ObjTimeArrays ==
    {a \in SeqsUpTo(0..MaxObjTime, MaxObjTime + 1) : Len(a) > 0 /\ StrictlyAscending(a)}

\* efm_ip_times: the times at which plasma is present, possibly none
ObjPlasmaArrays ==
    {a \in SeqsUpTo(0..MaxObjTime, MaxObjTime + 1) : StrictlyAscending(a)}

\* MASTEquilibrium.__init__; every time index holds the same LCFS row
MASTEquilibrium(ts, pt, lcfs, limiter) ==
    [cls |-> "MASTEquilibrium",
     time_slices |-> ts,
     plasma_times |-> pt,
     lcfs_poly_r |-> Padded(Rs(lcfs), MaxLcfsPts),
     lcfs_poly_z |-> Padded(Zs(lcfs), MaxLcfsPts),
     nlcfs |-> Len(lcfs),
     limiter_poly_r |-> Padded(Rs(limiter), MaxLimiterPts),
     limiter_poly_z |-> Padded(Zs(limiter), MaxLimiterPts),
     nlimiter |-> Len(limiter),
     time_range |-> <<ArrayMin(ts), ArrayMax(ts)>>,
     f_profile_psin |-> NoAttr,
     lcfs_polygon |-> NoAttr,
     limiter_polygon |-> NoAttr]

\* MASTUEquilibrium.__init__; every time index holds the same LCFS row
MASTUEquilibrium(ts, lcfs, limiter) ==
    [cls |-> "MASTUEquilibrium",
     time_slices |-> ts,
     time_range |-> <<ArrayMin(ts), ArrayMax(ts)>>,
     lcfs_poly_r |-> Rs(lcfs),
     lcfs_poly_z |-> Zs(lcfs),
     limiter_poly_r |-> Rs(limiter),
     limiter_poly_z |-> Zs(limiter)]

NoCall == [op |-> "none"]

Init ==
    /\ io = <<>>
    /\ call = NoCall
    /\ ret = Pending
    /\ \E ts \in ObjTimeArrays, lcfs \in PointSeqs(MaxLcfsPts),
          limiter \in PointSeqs(MaxLimiterPts) :
          \/ \E pt \in ObjPlasmaArrays : self = MASTEquilibrium(ts, pt, lcfs, limiter)
          \/ self = MASTUEquilibrium(ts, lcfs, limiter)

-----------------------------------------------------------------------------
(* MASTEquilibrium.time *)

\* a[0:n]
Slice0(a, n) == SubSeq(a, 1, IF n < Len(a) THEN n ELSE Len(a))

\* np.ascontiguousarray(poly.T): the N x 2 array as 2 x N, <<rs, zs>>
transpose(poly) == <<Rs(poly), Zs(poly)>>

\* the EFITEquilibrium handed back: the entries of the archived arrays are named
\* by the index they are read at
EFITEquilibrium(time, index, profile_index, lcfs_polygon, limiter_polygon) ==
    [time |-> time,
     index |-> index,
     profile_index |-> profile_index,
     lcfs_polygon |-> lcfs_polygon,
     limiter_polygon |-> limiter_polygon]

\* what a call leaves behind: the object, the result, the _find_nearest results
Outcome(obj, result, nearest) == [self |-> obj, ret |-> result, nearest |-> nearest]

MAST_time_outcome(obj, time) ==
    LET found == find_nearest(obj.time_slices, time)
        plasma_found == find_nearest(obj.plasma_times, time)
    IN
    IF found.kind = "raise"
    THEN \* time_slices is not empty: this is an IndexError
         Outcome(obj, RangeError(obj.time_range[1], obj.time_range[2]), <<found>>)
    ELSE IF plasma_found.kind = "raise"
    THEN Outcome(obj,
                 IF plasma_found.exc = "IndexError"
                 THEN RangeError(obj.time_range[1], obj.time_range[2])
                 ELSE plasma_found,
                 <<found, plasma_found>>)
    ELSE
    LET index == found.value
        plasma_index == plasma_found.value
        nearest == <<found, plasma_found>>
        obj1 == [obj EXCEPT !.f_profile_psin = Attr("f.dims[1].data")]
        lcfs == process_efit_lcfs_polygon(Slice0(obj.lcfs_poly_r, obj.nlcfs),
                                          Slice0(obj.lcfs_poly_z, obj.nlcfs))
    IN
    IF lcfs.kind = "raise"
    THEN Outcome(obj1, lcfs, nearest)
    ELSE
    LET lcfs_polygon == transpose(lcfs.value)
        obj2 == [obj1 EXCEPT !.lcfs_polygon = Attr(lcfs_polygon)]
        limiter == process_efit_lcfs_polygon(Slice0(obj.limiter_poly_r, obj.nlimiter),
                                             Slice0(obj.limiter_poly_z, obj.nlimiter))
    IN
    IF limiter.kind = "raise"
    THEN Outcome(obj2, limiter, nearest)
    ELSE
    LET limiter_polygon == transpose(limiter.value)
        obj3 == [obj2 EXCEPT !.limiter_polygon = Attr(limiter_polygon)]
    IN  Outcome(obj3,
                Returned(EFITEquilibrium(At(obj.time_slices, index), index, plasma_index,
                                         lcfs_polygon, limiter_polygon)),
                nearest)

\* the times asked for: every sample time, and one step outside on either side
ObjQueries == (0 - 1)..(MaxObjTime + 1)

MAST_time ==
    /\ self.cls = "MASTEquilibrium"
    /\ \E time \in ObjQueries :
          LET out == MAST_time_outcome(self, time) IN
          /\ self' = out.self
          /\ ret' = out.ret
          /\ call' = [op |-> "MASTEquilibrium.time", time |-> time, nearest |-> out.nearest]
    /\ UNCHANGED io

-----------------------------------------------------------------------------
(* MASTUEquilibrium.time *)

\* not tmin <= time <= tmax
mastu_outside(tmin, tmax, time) == ~(tmin <= time /\ time <= tmax)

argmin_abs_last(array, value) ==
    CHOOSE i \in 0..(Len(array) - 1) :
        /\ \A j \in 0..(Len(array) - 1) :
              AbsDiff(At(array, i), value) <= AbsDiff(At(array, j), value)
        /\ \A j \in (i + 1)..(Len(array) - 1) :
              AbsDiff(At(array, j), value) > AbsDiff(At(array, i), value)

\* np.argmin(abs(array - value)): the first index of the smallest distance
argmin_abs(array, value) ==
    CHOOSE i \in 0..(Len(array) - 1) :
        /\ \A j \in 0..(Len(array) - 1) :
              AbsDiff(At(array, i), value) <= AbsDiff(At(array, j), value)
        /\ \A j \in 0..(i - 1) :
              AbsDiff(At(array, j), value) > AbsDiff(At(array, i), value)

\* np.all(polygon[:, 0] == polygon[:, -1]) of a 2 x N polygon, N > 0
first_is_last(polygon) ==
    /\ polygon[1][1] = polygon[1][Len(polygon[1])]
    /\ polygon[2][1] = polygon[2][Len(polygon[2])]

\* polygon[:, :-1]
drop_last(polygon) ==
    <<SubSeq(polygon[1], 1, Len(polygon[1]) - 1), SubSeq(polygon[2], 1, Len(polygon[2]) - 1)>>

\* np.stack((poly_r, poly_z), axis=0), then the closing point is cut off once
mastu_open_polygon(poly_r, poly_z) ==
    LET polygon == <<poly_r, poly_z>> IN
    IF Len(poly_r) = 0
    THEN Raised("IndexError", MsgNumpyAxis1)
    ELSE IF first_is_last(polygon)
    THEN Returned(drop_last(polygon))
    ELSE Returned(polygon)

MASTU_time_outcome(obj, time) ==
    LET tmin == ArrayMin(obj.time_slices)
        tmax == ArrayMax(obj.time_slices)
    IN
    IF mastu_outside(tmin, tmax, time)
    THEN Outcome(obj, RangeError(tmin, tmax), <<>>)
    ELSE
    LET index == argmin_abs(obj.time_slices, time)
        lcfs == mastu_open_polygon(obj.lcfs_poly_r, obj.lcfs_poly_z)
        limiter == mastu_open_polygon(obj.limiter_poly_r, obj.limiter_poly_z)
    IN
    IF lcfs.kind = "raise" THEN Outcome(obj, lcfs, <<>>)
    ELSE IF limiter.kind = "raise" THEN Outcome(obj, limiter, <<>>)
    ELSE Outcome(obj,
                 Returned(EFITEquilibrium(At(obj.time_slices, index), index, index,
                                          lcfs.value, limiter.value)),
                 <<>>)

MASTU_time ==
    /\ self.cls = "MASTUEquilibrium"
    /\ \E time \in ObjQueries :
          LET out == MASTU_time_outcome(self, time) IN
          /\ self' = out.self
          /\ ret' = out.ret
          /\ call' = [op |-> "MASTUEquilibrium.time", time |-> time, nearest |-> out.nearest]
    /\ UNCHANGED io

Next == MAST_time \/ MASTU_time

Spec == Init /\ [][Next]_vars

-----------------------------------------------------------------------------
TimeDone == call.op \in {"MASTEquilibrium.time", "MASTUEquilibrium.time"}

(* C2: MASTEquilibrium.time(t) raises the 'Requested time lies outside the  *)
(* range of the data' error only when t is outside the sample times: for    *)
(* min <= t <= max of both time_slices and plasma_times, each _find_nearest *)
(* call returns an index between 0 and len-1 and time(t) does not end in    *)
(* the range error.                                                         *)
C2_InRangeNeverRangeError ==
    (/\ call.op = "MASTEquilibrium.time"
     /\ InRange(self.time_slices, call.time)
     /\ InRange(self.plasma_times, call.time)) =>
        /\ Len(call.nearest) = 2
        /\ call.nearest[1].kind = "return"
        /\ call.nearest[1].value \in 0..(Len(self.time_slices) - 1)
        /\ call.nearest[2].kind = "return"
        /\ call.nearest[2].value \in 0..(Len(self.plasma_times) - 1)
        /\ ~(ret.kind = "raise" /\ ret.msg = MsgTimeRange)

(* C3: for a time strictly below the smallest or strictly above the largest *)
(* sample time, _find_nearest raises its range IndexError and time() of     *)
(* both classes raises the ValueError that carries (min, max) of the sample *)
(* times; no time-slice is returned.                                        *)
StrictlyOutside(a, v) == \/ \A i \in 1..Len(a) : v < a[i]
                         \/ \A i \in 1..Len(a) : v > a[i]

SmallestSample(a) == CHOOSE x \in {a[i] : i \in 1..Len(a)} : \A i \in 1..Len(a) : x <= a[i]

LargestSample(a) == CHOOSE x \in {a[i] : i \in 1..Len(a)} : \A i \in 1..Len(a) : a[i] <= x

C3_OutsideRaisesWithBounds ==
    (TimeDone /\ StrictlyOutside(self.time_slices, call.time)) =>
        /\ ret.kind = "raise"
        /\ ret.exc = "ValueError"
        /\ ret.msg = MsgTimeRange
        /\ ret.bounds = <<SmallestSample(self.time_slices), LargestSample(self.time_slices)>>
        /\ call.op = "MASTEquilibrium.time" =>
              call.nearest = <<Raised("IndexError", MsgFindRange)>>

\* a MAST object asked for a time above its last sample
C3_Witness ==
    /\ call.op = "MASTEquilibrium.time"
    /\ self.time_slices = <<0, 1>>
    /\ call.time = 2
    /\ ret = RangeError(0, 1)

(* C5: a time-slice returned by either class carries open boundary          *)
(* polygons: for the LCFS and the limiter polygon (of two or more vertices) *)
(* the last vertex differs from the first, whatever the archive held.       *)
Vertex(polygon, k) == <<polygon[1][k], polygon[2][k]>>

OpenPolygon(polygon) ==
    Len(polygon[1]) >= 2 => Vertex(polygon, Len(polygon[1])) # Vertex(polygon, 1)

C5_ReturnedPolygonsOpen ==
    (TimeDone /\ ret.kind = "return") =>
        /\ OpenPolygon(ret.value.lcfs_polygon)
        /\ OpenPolygon(ret.value.limiter_polygon)

(* C9: a time(t) call, successful or failing, leaves every attribute of the *)
(* equilibrium-series object and every archived array it holds as it was    *)
(* after construction, and adds no attribute.                               *)
C9_TimeLeavesObjectUnchanged == [][self' = self]_vars

-----------------------------------------------------------------------------
(* load_default_bolometer_config *)

\* A string is a sequence of atoms, each a word or the blank " ";
\* "CORE - Poloidal".split('-') is << <<"CORE", " ">>, <<" ", "Poloidal">> >>.
Blank == " "

RECURSIVE lstrip(_)
lstrip(str) == IF str # <<>> /\ Head(str) = Blank THEN lstrip(Tail(str)) ELSE str

RECURSIVE rstrip(_)
rstrip(str) ==
    IF str # <<>> /\ str[Len(str)] = Blank THEN rstrip(SubSeq(str, 1, Len(str) - 1)) ELSE str

\* elem.strip()
strip(str) == rstrip(lstrip(str))

LowerWord ==
    [w \in {"CORE", "core", "SXDL", "JET", "Poloidal", "poloidal", "Tangential",
            "Outer", "Upper", "Divertor", "MAST", "U", "Slit", "CH", "1", Blank,
            "HighRes", "outer", "-"} |->
        CASE w = "CORE" -> "core"
          [] w = "SXDL" -> "sxdl"
          [] w = "JET" -> "jet"
          [] w = "Poloidal" -> "poloidal"
          [] w = "Tangential" -> "tangential"
          [] w = "Outer" -> "outer"
          [] w = "Upper" -> "upper"
          [] w = "Divertor" -> "divertor"
          [] w = "MAST" -> "mast"
          [] w = "U" -> "u"
          [] w = "Slit" -> "slit"
          [] w = "CH" -> "ch"
          [] w = "HighRes" -> "highres"
          [] OTHER -> w]

\* str.lower()
lower(str) == [k \in 1..Len(str) |-> LowerWord[str[k]]]

\* str.split()[0]: the first word of a string that has one
first_word(str) == <<lstrip(str)[1]>>

\* "MAST-U <chamber> - <camera> Slit <N>" and "MAST-U <chamber> - <camera> CH<N>",
\* as split('-') cuts them
SlitId(chamber, camera) ==
    << <<"MAST">>, <<"U", Blank, chamber, Blank>>, <<Blank, camera, Blank, "Slit", Blank, "1">> >>

FoilId(chamber, camera) ==
    << <<"MAST">>, <<"U", Blank, chamber, Blank>>, <<Blank, camera, Blank, "CH", "1">> >>

\* id.split('-')[2].split()[0]
id_camera(id) == first_word(id[3])

\* the chamber a geometry entry belongs to
id_chamber(id) == id[2][3]

MsgChamber == "Chamber must be \"SXDL\" or \"CORE\""
MsgSxdlCamera == "For SXDL, camera name must be \"Outer\" or \"Upper\""
MsgCoreCamera == "For Core, camera name must be \"Poloidal\" or \"Tangential\""
MsgUnpack == "not enough / too many values to unpack (expected 2)"
MsgUda == "Couldn't retrieve bolometer geometry data from UDA."

\* what the call has reached: the result so far and the external effects, in order
Step(result, effects) == [ret |-> result, io |-> effects]

EvClient == [ev |-> "pyuda.Client"]
EvGeometry(chamber) == [ev |-> "client.geometry", path |-> <<"/bolo/", chamber>>]
EvMesh(data) == [ev |-> "Mesh.from_file", mesh |-> data]
EvCamera(chamber, camera_name) ==
    [ev |-> "BolometerCamera", name |-> <<"MAST-U", chamber, "-", camera_name, "Bolometer">>]

\* the camera's entry in SXD_BOLOMETERS / CORE_BOLOMETERS, or the ValueError
mesh_geometry_data(chamber, camera_name) ==
    IF lower(chamber) = <<"sxdl">>
    THEN IF lower(camera_name) = <<"outer">> THEN Returned(<<"SXD_BOLOMETERS", 0>>)
         ELSE IF lower(camera_name) = <<"upper">> THEN Returned(<<"SXD_BOLOMETERS", 1>>)
         ELSE Raised("ValueError", MsgSxdlCamera)
    ELSE IF lower(camera_name) = <<"poloidal">> THEN Returned(<<"CORE_BOLOMETERS", 0>>)
         ELSE IF lower(camera_name) = <<"tangential">> THEN Returned(<<"CORE_BOLOMETERS", 1>>)
         ELSE Raised("ValueError", MsgCoreCamera)

\* bolometers['/slits/data'], or bolometers['/data/slits/data'] when the first key
\* is missing (a local file): either way the slits of the chamber asked for
geometry_slits(archive, chamber) ==
    {id \in archive.slits : LowerWord[id_chamber(id)] = lower(chamber)[1]}

geometry_foils(archive, chamber) ==
    SelectSeq(archive.foils, LAMBDA f : LowerWord[id_chamber(f.id)] = lower(chamber)[1])

slit_objects_of_any_camera(slits, camera_name) == slits

\* the slits loop: slit_objects, keyed by slit id
slit_objects(slits, camera_name) == {id \in slits : id_camera(id) = camera_name}

\* the foils loop: the foils added before the loop ends or slit_objects[...] fails
RECURSIVE add_foils(_, _, _, _)
add_foils(foils, camera_name, slit_objs, added) ==
    IF foils = <<>> THEN Returned(added)
    ELSE LET foil == Head(foils) IN
         IF id_camera(foil.id) # camera_name
         THEN add_foils(Tail(foils), camera_name, slit_objs, added)
         ELSE IF foil.slit_id \notin slit_objs
         THEN Raised("KeyError", foil.slit_id)
         ELSE add_foils(Tail(foils), camera_name, slit_objs,
                        Append(added, [detector_id |-> foil.id, slit |-> foil.slit_id]))

load_default_bolometer_config(bolometer_id, archive) ==
    LET parts == [k \in 1..Len(bolometer_id) |-> strip(bolometer_id[k])] IN
    IF Len(parts) # 2
    THEN \* the unpacking fails with a ValueError; the except clause names KeyError
         Step(Raised("ValueError", MsgUnpack), <<>>)
    ELSE
    LET chamber == parts[1]
        camera_name == parts[2]
    IN
    IF lower(chamber) \notin {<<"sxdl">>, <<"core">>}
    THEN Step(Raised("ValueError", MsgChamber), <<>>)
    ELSE
    LET queried == <<EvClient, EvGeometry(lower(chamber))>> IN
    IF ~archive.ok
    THEN Step(Raised("UDAException", MsgUda), queried)
    ELSE
    LET mesh == mesh_geometry_data(chamber, camera_name) IN
    IF mesh.kind = "raise"
    THEN Step(mesh, queried)
    ELSE
    LET built == queried \o <<EvMesh(mesh.value), EvCamera(chamber, camera_name)>>
        slit_objs == slit_objects(geometry_slits(archive, chamber), camera_name)
        foils == add_foils(geometry_foils(archive, chamber), camera_name, slit_objs, <<>>)
    IN
    IF foils.kind = "raise"
    THEN Step(foils, built)
    ELSE Step(Returned([name |-> <<"MAST-U", chamber, "-", camera_name, "Bolometer">>,
                        slit_objects |-> slit_objs,
                        foil_detectors |-> foils.value]),
              built)

\* the identifiers asked for, as split('-') cuts them
ChamberParts == {<<"CORE", Blank>>, <<"core", Blank>>, <<"SXDL", Blank>>, <<"JET", Blank>>}

CameraParts ==
    {<<Blank, "Poloidal">>, <<Blank, "poloidal">>, <<Blank, "Tangential">>,
     <<Blank, "Outer">>, <<Blank, "Upper">>, <<Blank, "Divertor">>}

BolometerIds ==
    {<<c>> : c \in ChamberParts}
      \cup {<<c, n>> : c \in ChamberParts, n \in CameraParts}
      \cup {<<c, <<Blank, "Poloidal">>, <<"MAST">>>> : c \in ChamberParts}

\* what the archive holds
ArchiveCameras == {<<"CORE", "Poloidal">>, <<"CORE", "Tangential">>, <<"SXDL", "Outer">>}

ArchiveSlits == {SlitId(c[1], c[2]) : c \in ArchiveCameras}

ArchiveFoils ==
    {[id |-> FoilId(c[1], c[2]), slit_id |-> s] : c \in ArchiveCameras, s \in ArchiveSlits}

DistinctSeq(q) == \A i, j \in 1..Len(q) : i # j => q[i] # q[j]

Archives ==
    {[ok |-> FALSE, slits |-> {}, foils |-> <<>>]}
      \cup {[ok |-> TRUE, slits |-> ss, foils |-> fs] :
               ss \in SUBSET ArchiveSlits,
               fs \in {q \in SeqsUpTo(ArchiveFoils, MaxFoils) : DistinctSeq(q)}}

InitBolo ==
    /\ self = NoObject
    /\ io = <<>>
    /\ ret = Pending
    /\ \E id \in BolometerIds, archive \in Archives :
          call = [op |-> "pending", bolometer_id |-> id, archive |-> archive]

LoadDefaultBolometerConfig ==
    /\ ret = Pending
    /\ call.op = "pending"
    /\ LET out == load_default_bolometer_config(call.bolometer_id, call.archive) IN
          /\ ret' = out.ret
          /\ io' = io \o out.io
    /\ call' = [call EXCEPT !.op = "load_default_bolometer_config"]
    /\ UNCHANGED self

NextBolo == LoadDefaultBolometerConfig

SpecBolo == InitBolo /\ [][NextBolo]_vars

BoloDone == call.op = "load_default_bolometer_config"

(* C10: a configuration error of load_default_bolometer_config is raised    *)
(* immediately: for an unrecognised chamber or an unrecognised camera the   *)
(* ValueError is raised before an archive client is created or a geometry   *)
(* query is issued, and no camera object is built.                          *)
ConfigurationError ==
    /\ ret.kind = "raise"
    /\ ret.exc = "ValueError"
    /\ ret.msg \in {MsgChamber, MsgSxdlCamera, MsgCoreCamera}

C10_ConfigErrorBeforeArchive ==
    (BoloDone /\ ConfigurationError) => io = <<>>

-----------------------------------------------------------------------------
(* C11: for an accepted bolometer_id "<chamber> - <camera>" the camera      *)
(* returned holds exactly the archive foils (of the chamber queried) whose  *)
(* identifier names the camera as the bolometer_id writes it, in archive    *)
(* order and none of another camera, each attached to the slit whose        *)
(* identifier is the foil's slit reference; when such a foil refers to a    *)
(* slit that is not a slit of the requested camera the load ends in an      *)
(* error and returns no camera.                                             *)
AcceptedNames ==
    {<<"core", "poloidal">>, <<"core", "tangential">>, <<"sxdl", "outer">>, <<"sxdl", "upper">>}

\* the bolometer_id is "<chamber> - <camera>" with a recognised chamber and camera
AcceptedId(id) ==
    /\ Len(id) = 2
    /\ Len(id[1]) = 2
    /\ Len(id[2]) = 2
    /\ <<LowerWord[id[1][1]], LowerWord[id[2][2]]>> \in AcceptedNames

\* the words of an archive identifier "MAST-U <chamber> - <camera> ..."
ChamberWord(id) == id[2][3]
CameraWord(id) == id[3][2]

RequestedFoils ==
    SelectSeq(call.archive.foils,
              LAMBDA f : /\ LowerWord[ChamberWord(f.id)] = LowerWord[call.bolometer_id[1][1]]
                         /\ CameraWord(f.id) = call.bolometer_id[2][2])

RequestedSlits ==
    {s \in call.archive.slits :
        /\ LowerWord[ChamberWord(s)] = LowerWord[call.bolometer_id[1][1]]
        /\ CameraWord(s) = call.bolometer_id[2][2]}

SameButCase(id, other) ==
    /\ Len(id) = Len(other)
    /\ \A k \in 1..Len(id) : lower(id[k]) = lower(other[k])

C16_CaseInsensitiveSelection ==
    (BoloDone /\ AcceptedId(call.bolometer_id) /\ ret.kind = "return") =>
        /\ \A other \in BolometerIds :
              SameButCase(call.bolometer_id, other) =>
                 LET o == load_default_bolometer_config(other, call.archive).ret IN
                 /\ o.kind = "return"
                 /\ o.value.slit_objects = ret.value.slit_objects
                 /\ o.value.foil_detectors = ret.value.foil_detectors
        /\ (\E k \in 1..Len(call.archive.foils) :
               /\ LowerWord[ChamberWord(call.archive.foils[k].id)]
                     = LowerWord[call.bolometer_id[1][1]]
               /\ LowerWord[CameraWord(call.archive.foils[k].id)]
                     = LowerWord[call.bolometer_id[2][2]])
              => ret.value.foil_detectors # <<>>

-----------------------------------------------------------------------------
(* rtm_sensitivities.py: main and calculate_and_save_sensitivities *)

MsgCameras == "The following cameras are supported: 'Outer', 'Upper', 'Poloidal', 'Tangential', 'PoloidalHighRes', 'TangentialHighRes', 'Poloidal-MAST'"
MsgGrids == "Only 'sxd', 'core' and 'core_high_res' grids supported."
MsgArgv == "list index out of range"

\* grid names, atom by atom
GridSxdl == <<"sxdl">>
GridCore == <<"core">>
GridCoreHighRes == <<"core", "_", "high", "_", "res">>

\* str.split("-")[0]
RECURSIVE first_field(_)
first_field(str) ==
    IF str = <<>> \/ Head(str) = "-" THEN <<>> ELSE <<Head(str)>> \o first_field(Tail(str))

\* grid_name.replace("_", "-")
replace_underscores(str) == [k \in 1..Len(str) |-> IF str[k] = "_" THEN "-" ELSE str[k]]

\* camera[:-7]: the last atom, "HighRes", has 7 characters
trim_high_res(camera) == SubSeq(camera, 1, Len(camera) - 1)

Selection(mesh_parts, shift_p5, grid, camera, camera_transform) ==
    [mesh_parts |-> mesh_parts, shift_p5 |-> shift_p5, grid |-> grid, camera |-> camera,
     camera_transform |-> camera_transform]

main_select_any_case(camera) ==
    IF lower(camera) \in {<<"outer">>, <<"upper">>}
    THEN Returned(Selection("MASTU_FULL_MESH", FALSE, GridSxdl, camera, "None"))
    ELSE IF lower(camera) \in {<<"poloidal">>, <<"tangential">>}
    THEN Returned(Selection("MASTU_FULL_MESH", TRUE, GridCore, camera, "None"))
    ELSE IF camera \in {<<"Poloidal", "HighRes">>, <<"Tangential", "HighRes">>}
    THEN Returned(Selection("MASTU_FULL_MESH", TRUE, GridCoreHighRes,
                            trim_high_res(camera), "None"))
    ELSE IF camera = <<"Poloidal", "-", "MAST">>
    THEN Returned(Selection("MAST_FULL_MESH", FALSE, GridCore, camera, "translate(0, 0.1, 0)"))
    ELSE Raised("ValueError", MsgCameras)

\* the if / elif chain of main
main_select(camera) ==
    IF camera \in {<<"Outer">>, <<"Upper">>}
    THEN Returned(Selection("MASTU_FULL_MESH", FALSE, GridSxdl, camera, "None"))
    ELSE IF camera \in {<<"Poloidal">>, <<"Tangential">>}
    THEN Returned(Selection("MASTU_FULL_MESH", TRUE, GridCore, camera, "None"))
    ELSE IF camera \in {<<"Poloidal", "HighRes">>, <<"Tangential", "HighRes">>}
    THEN Returned(Selection("MASTU_FULL_MESH", TRUE, GridCoreHighRes,
                            trim_high_res(camera), "None"))
    ELSE IF camera = <<"Poloidal", "-", "MAST">>
    THEN Returned(Selection("MAST_FULL_MESH", FALSE, GridCore, camera, "translate(0, 0.1, 0)"))
    ELSE Raised("ValueError", MsgCameras)

EvWorld(mesh_parts, shift_p5) ==
    [ev |-> "load_vessel_world", mesh_parts |-> mesh_parts, shift_p5 |-> shift_p5]
EvTransform(camera_transform) == [ev |-> "bolo.transform", by |-> camera_transform]
EvRayTransfer(grid) == [ev |-> "RayTransferCylinder", grid |-> grid]
EvObserve(detector) == [ev |-> "detector.observe", detector |-> detector.detector_id]
EvSave(file_name, rows) == [ev |-> "np.save", file_name |-> file_name, rows |-> rows]

\* "rtm_{}_{}_bolo.npy".format(grid_name.replace("_", "-"), camera.lower())
file_name(grid_name, camera) ==
    <<"rtm", "_">> \o replace_underscores(grid_name) \o <<"_">> \o lower(camera)
        \o <<"_", "bolo", ".npy">>

\* "SXDL - {}" / "CORE - {}", as load_default_bolometer_config's split('-') cuts it
bolo_name(grid_name, cam_nometa) ==
    IF grid_name = GridSxdl THEN Returned(<< <<"SXDL", Blank>>, <<Blank>> \o cam_nometa >>)
    ELSE IF grid_name \in {GridCore, GridCoreHighRes}
    THEN Returned(<< <<"CORE", Blank>>, <<Blank>> \o cam_nometa >>)
    ELSE Raised("ValueError", MsgGrids)

calculate_and_save_sensitivities(sel, archive) ==
    LET world == <<EvWorld(sel.mesh_parts, sel.shift_p5)>>
        cam_nometa == first_field(sel.camera)
        name == bolo_name(sel.grid, cam_nometa)
    IN
    IF name.kind = "raise" THEN Step(name, world)
    ELSE
    LET loaded == load_default_bolometer_config(name.value, archive)
        after_load == world \o loaded.io
    IN
    IF loaded.ret.kind = "raise" THEN Step(loaded.ret, after_load)
    ELSE
    LET bolo == loaded.ret.value
        moved == IF sel.camera_transform # "None"
                 THEN <<EvTransform(sel.camera_transform)>> ELSE <<>>
        observed == [k \in 1..Len(bolo.foil_detectors) |-> EvObserve(bolo.foil_detectors[k])]
    IN  Step(Returned("None"),
             after_load \o moved \o <<EvRayTransfer(sel.grid)>> \o observed
                 \o <<EvSave(file_name(sel.grid, sel.camera), Len(bolo.foil_detectors))>>)

\* main, given sys.argv
main(argv, archive) ==
    IF Len(argv) < 2 THEN Step(Raised("IndexError", MsgArgv), <<>>)
    ELSE LET sel == main_select(argv[2]) IN
         IF sel.kind = "raise" THEN Step(sel, <<>>)
         ELSE calculate_and_save_sensitivities(sel.value, archive)

SupportedCameras ==
    {<<"Outer">>, <<"Upper">>, <<"Poloidal">>, <<"Tangential">>, <<"Poloidal", "HighRes">>,
     <<"Tangential", "HighRes">>, <<"Poloidal", "-", "MAST">>}

OtherCameras ==
    {<<"outer">>, <<"poloidal">>, <<"Divertor">>, <<"Outer", "HighRes">>,
     <<"Tangential", "-", "MAST">>, <<"HighRes">>, <<>>}

MainArgvs ==
    {<<"rtm_sensitivities.py">>}
      \cup {<<"rtm_sensitivities.py", c>> : c \in SupportedCameras \cup OtherCameras}

InitMain ==
    /\ self = NoObject
    /\ io = <<>>
    /\ ret = Pending
    /\ \E argv \in MainArgvs, archive \in Archives :
          call = [op |-> "pending", argv |-> argv, archive |-> archive]

Main ==
    /\ ret = Pending
    /\ call.op = "pending"
    /\ LET out == main(call.argv, call.archive) IN
          /\ ret' = out.ret
          /\ io' = io \o out.io
    /\ call' = [call EXCEPT !.op = "main"]
    /\ UNCHANGED self

NextMain == Main

SpecMain == InitMain /\ [][NextMain]_vars

MainDone == call.op = "main"

(* C12: main() accepts exactly the camera arguments 'Outer', 'Upper',       *)
(* 'Poloidal', 'Tangential', 'PoloidalHighRes', 'TangentialHighRes' and     *)
(* 'Poloidal-MAST'; for any other argument it raises an error before a mesh *)
(* is loaded, an archive query is made or an output file is written.        *)
DocumentedCameras ==
    {<<"Outer">>, <<"Upper">>, <<"Poloidal">>, <<"Tangential">>, <<"Poloidal", "HighRes">>,
     <<"Tangential", "HighRes">>, <<"Poloidal", "-", "MAST">>}

C12_ExactlyTheSevenCameras ==
    (MainDone /\ Len(call.argv) = 2) =>
        IF call.argv[2] \in DocumentedCameras
        THEN /\ ~(ret.kind = "raise" /\ ret.msg = MsgCameras)
             /\ io # <<>>
             /\ io[1].ev = "load_vessel_world"
        ELSE /\ ret = Raised("ValueError", MsgCameras)
             /\ io = <<>>

\* a lower-case camera name is refused before anything is loaded
C12_Witness ==
    /\ MainDone
    /\ call.argv = <<"rtm_sensitivities.py", <<"outer">>>>
    /\ ret = Raised("ValueError", MsgCameras)
    /\ io = <<>>

(* C13: for each accepted camera argument the batch driver writes exactly   *)
(* one output file, named after the documented template                     *)
(* <grid>_<camera>_bolo.npy from the grid name and the camera name.         *)
Saves == SelectSeq(io, LAMBDA e : e.ev = "np.save")

DocumentedFileName(grid, camera) == grid \o <<"_">> \o camera \o <<"_", "bolo", ".npy">>

GridOf(camera) ==
    IF camera \in {<<"Outer">>, <<"Upper">>} THEN <<"sxdl">>
    ELSE IF camera \in {<<"Poloidal", "HighRes">>, <<"Tangential", "HighRes">>}
    THEN <<"core", "_", "high", "_", "res">>
    ELSE <<"core">>

CameraOf(camera) ==
    IF camera \in {<<"Poloidal", "HighRes">>, <<"Tangential", "HighRes">>}
    THEN <<camera[1]>> ELSE camera

C13_OneFileNamedByTemplate ==
    (MainDone /\ Len(call.argv) = 2 /\ call.argv[2] \in DocumentedCameras
        /\ ret.kind = "return") =>
        /\ Len(Saves) = 1
        /\ Saves[1].file_name = DocumentedFileName(GridOf(call.argv[2]), CameraOf(call.argv[2]))

-----------------------------------------------------------------------------
(* load_voxel_grids.py: load_grid_extras *)

MsgNoFile == "No such file or directory"

GridSystems == {"core", "core_high_res", "sxdl"}

\* the entries a grid file can hold; every stored value is one of a few tokens
GridKeys == {"voxels", "index_1D_to_2D_map", "index_2D_to_1D_map", "laplacian"}
GridValues == 0..MaxGridValue
GridMappings == UNION {[keys -> GridValues] : keys \in SUBSET GridKeys}
NoMapping == [k \in {} |-> 0]

\* '{}_rectilinear_grid.pickle'.format(system), beside the module
default_grid_file(system) == <<"load_voxel_grids/", system, "_rectilinear_grid.pickle">>

EvOpen(path) == [ev |-> "open", path |-> path]

dict_pop_missed(mapping, key) == Returned(mapping)

\* dict.pop(key): the mapping without key, KeyError when key is absent
dict_pop(mapping, key) ==
    IF key \in DOMAIN mapping
    THEN Returned([k \in DOMAIN mapping \ {key} |-> mapping[k]])
    ELSE Raised("KeyError", key)

load_grid_extras(system, grid_file, exists, content) ==
    LET path == IF grid_file = "None" THEN default_grid_file(system) ELSE <<grid_file>> IN
    IF ~exists THEN Step(Raised("FileNotFoundError", MsgNoFile), <<EvOpen(path)>>)
    ELSE Step(dict_pop(content, "voxels"), <<EvOpen(path)>>)

InitGrid ==
    /\ self = NoObject
    /\ io = <<>>
    /\ ret = Pending
    /\ \E system \in GridSystems, grid_file \in {"None", "my_grid.pickle"},
          exists \in BOOLEAN, content \in GridMappings :
          /\ ~exists => content = NoMapping
          /\ call = [op |-> "pending", system |-> system, grid_file |-> grid_file,
                     exists |-> exists, content |-> content]

LoadGridExtras ==
    /\ ret = Pending
    /\ call.op = "pending"
    /\ LET out == load_grid_extras(call.system, call.grid_file, call.exists, call.content) IN
          /\ ret' = out.ret
          /\ io' = io \o out.io
    /\ call' = [call EXCEPT !.op = "load_grid_extras"]
    /\ UNCHANGED self

NextGrid == LoadGridExtras

SpecGrid == InitGrid /\ [][NextGrid]_vars

GridDone == call.op = "load_grid_extras"

(* C14: load_grid_extras returns the persisted grid mapping with the voxels *)
(* entry removed and every other entry present and unchanged: the result    *)
(* has no voxels key and its keys are the keys of the file minus voxels.    *)
C14_ExtrasAreFileMinusVoxels ==
    (GridDone /\ call.exists /\ "voxels" \in DOMAIN call.content) =>
        /\ ret.kind = "return"
        /\ "voxels" \notin DOMAIN ret.value
        /\ DOMAIN ret.value = DOMAIN call.content \ {"voxels"}
        /\ \A k \in DOMAIN ret.value : ret.value[k] = call.content[k]

C14_Witness ==
    /\ GridDone
    /\ call.exists
    /\ DOMAIN call.content = GridKeys
    /\ call.content["laplacian"] = 1
    /\ ret.kind = "return"
    /\ DOMAIN ret.value = GridKeys \ {"voxels"}
    /\ ret.value["laplacian"] = 1

-----------------------------------------------------------------------------
(* MASTEquilibrium.time and MASTUEquilibrium.time asked the same question *)

\* a boundary both classes hand back as it is
BothPolygon == << <<0, 0>>, <<1, 0>> >>

\* one time base for both archives; plasma is present over all of it
BothTimeArrays ==
    {a \in SeqsUpTo(0..MaxBothTime, MaxBothTime + 1) : Len(a) > 0 /\ StrictlyAscending(a)}

BothQueries == (0 - 1)..(MaxBothTime + 1)

InitBoth ==
    /\ io = <<>>
    /\ ret = [mast |-> Pending, mastu |-> Pending]
    /\ \E ts \in BothTimeArrays, time \in BothQueries :
          /\ self = [cls |-> "both",
                     mast |-> MASTEquilibrium(ts, ts, BothPolygon, BothPolygon),
                     mastu |-> MASTUEquilibrium(ts, BothPolygon, BothPolygon)]
          /\ call = [op |-> "time", time |-> time]

Both_MAST_time ==
    /\ self.cls = "both"
    /\ ret.mast = Pending
    /\ LET out == MAST_time_outcome(self.mast, call.time) IN
          /\ self' = [self EXCEPT !.mast = out.self]
          /\ ret' = [ret EXCEPT !.mast = out.ret]
    /\ UNCHANGED <<call, io>>

Both_MASTU_time ==
    /\ self.cls = "both"
    /\ ret.mastu = Pending
    /\ LET out == MASTU_time_outcome(self.mastu, call.time) IN
          /\ self' = [self EXCEPT !.mastu = out.self]
          /\ ret' = [ret EXCEPT !.mastu = out.ret]
    /\ UNCHANGED <<call, io>>

NextBoth == Both_MAST_time \/ Both_MASTU_time

SpecBoth == InitBoth /\ [][NextBoth]_vars

BothDone == ret.mast.kind # "pending" /\ ret.mastu.kind # "pending"

\* the query lies midway between sample i and sample i + 1 (indices from 0)
Tie(array, value, i) ==
    /\ At(array, i) < value
    /\ value - At(array, i) = At(array, i + 1) - value

-----------------------------------------------------------------------------
(* MASTEquilibrium.__init__ and MASTUEquilibrium.__init__ *)

MsgMastPulse == "MASTEquilibrium on supports pulses before 40000. Use MASTUEquilibrium instead for pulses after 40000."
MsgMastuPulse == "MAST-U Equilibria only supported for pulse 40000 onwards."

\* the pulse numbers the two conditions compare with
MastPulseEnd == 40000
MastuPulseStart == 40000

\* a pulse is a number that is, or is not, a Python int (39999.0 is not)
Pulse(is_int, value) == [is_int |-> is_int, value |-> value]

Pulses ==
    {Pulse(is_int, value) : is_int \in BOOLEAN,
        value \in (MastuPulseStart - MaxPulseOffset)..(MastuPulseStart + MaxPulseOffset)}

EvGet(signal, pulse) == [ev |-> "client.get", signal |-> signal, pulse |-> pulse]

MAST_signals ==
    <<"efm_psi(r,z)", "efm_grid(r)", "efm_grid(z)", "efm_f(psi)_(c)", "efm_q(psi)_(c)",
      "efm_psi(r)", "efm_psi_boundary", "efm_psi_axis", "efm_plasma_curr(C)", "efm_bvac_val",
      "efm_bvac_r", "efm_magnetic_axis_r", "efm_magnetic_axis_z", "efm_xpoint1_r(c)",
      "efm_xpoint1_z(c)", "efm_xpoint2_r(c)", "efm_xpoint2_z(c)", "efm_minor_radius",
      "efm_lcfs(r)_(c)", "efm_lcfs(z)_(c)", "efm_lcfs(n)_(c)", "efm_limiter(r)",
      "efm_limiter(z)", "efm_limiter(n)", "efm_ip_times">>

MASTU_signals ==
    <<"/epm/output/profiles2D/poloidalFlux", "/epm/output/profiles2D/r",
      "/epm/output/profiles2D/z", "/epm/output/fluxFunctionProfiles/ffPrime",
      "/epm/output/fluxFunctionProfiles/q", "/epm/output/fluxFunctionProfiles/poloidalFlux",
      "/epm/output/globalParameters/psiBoundary", "/epm/output/globalParameters/psiAxis",
      "/epm/output/globalParameters/plasmaCurrent", "/epm/output/globalParameters/bvacRmag",
      "/epm/output/globalParameters/magneticAxis/R",
      "/epm/output/globalParameters/magneticAxis/Z",
      "/epm/output/separatrixGeometry/xpointCount", "/epm/output/separatrixGeometry/xpointR",
      "/epm/output/separatrixGeometry/xpointZ", "/epm/output/separatrixGeometry/strikepointR",
      "/epm/output/separatrixGeometry/strikepointZ",
      "/epm/output/separatrixGeometry/minorRadius", "/epm/output/separatrixGeometry/rBoundary",
      "/epm/output/separatrixGeometry/zBoundary", "/epm/input/limiter/rValues",
      "/epm/input/limiter/zValues">>

\* pyuda.Client(), then one client.get per signal, in the order of the code
archive_reads(signals, pulse) ==
    <<EvClient>> \o [k \in 1..Len(signals) |-> EvGet(signals[k], pulse)]

mast_refuses_after(pulse) == pulse.value > MastPulseEnd

\* pulse >= 40000
mast_refuses(pulse) == pulse.value >= MastPulseEnd

\* isinstance(pulse, int) and pulse < 40000
mastu_refuses(pulse) == pulse.is_int /\ pulse.value < MastuPulseStart

\* the archive answers every query; ts is the time base it holds
MAST_init_outcome(pulse, ts) ==
    IF mast_refuses(pulse)
    THEN Outcome(NoObject, Raised("ValueError", MsgMastPulse), <<>>)
    ELSE Outcome(MASTEquilibrium(ts, ts, BothPolygon, BothPolygon), Returned("None"),
                 archive_reads(MAST_signals, pulse))

MASTU_init_outcome(pulse, ts) ==
    IF mastu_refuses(pulse)
    THEN Outcome(NoObject, Raised("ValueError", MsgMastuPulse), <<>>)
    ELSE Outcome(MASTUEquilibrium(ts, BothPolygon, BothPolygon), Returned("None"),
                 archive_reads(MASTU_signals, pulse))

InitPulse ==
    /\ io = <<>>
    /\ ret = [mast |-> Pending, mastu |-> Pending]
    /\ self = [cls |-> "both", mast |-> NoObject, mastu |-> NoObject]
    /\ \E pulse \in Pulses, ts \in ObjTimeArrays :
          call = [op |-> "__init__", pulse |-> pulse, time_slices |-> ts]

MAST_init ==
    /\ call.op = "__init__"
    /\ ret.mast = Pending
    /\ LET out == MAST_init_outcome(call.pulse, call.time_slices) IN
          /\ self' = [self EXCEPT !.mast = out.self]
          /\ ret' = [ret EXCEPT !.mast = out.ret]
          /\ io' = io \o out.nearest
    /\ UNCHANGED call

MASTU_init ==
    /\ call.op = "__init__"
    /\ ret.mastu = Pending
    /\ LET out == MASTU_init_outcome(call.pulse, call.time_slices) IN
          /\ self' = [self EXCEPT !.mastu = out.self]
          /\ ret' = [ret EXCEPT !.mastu = out.ret]
          /\ io' = io \o out.nearest
    /\ UNCHANGED call

NextPulse == MAST_init \/ MASTU_init

SpecPulse == InitPulse /\ [][NextPulse]_vars

PulseDone == ret.mast.kind # "pending" /\ ret.mastu.kind # "pending"

(* C17: for every integer pulse number exactly one of the two classes       *)
(* accepts it: MASTEquilibrium refuses every pulse >= 40000 and             *)
(* MASTUEquilibrium every integer pulse < 40000, each with a ValueError     *)
(* raised before the archive client is created or any query is issued, so   *)
(* the only archive traffic is that of the class that accepted.             *)
C17_ExactlyOneClassAccepts ==
    (PulseDone /\ call.pulse.is_int) =>
        IF call.pulse.value >= 40000
        THEN /\ ret.mast = Raised("ValueError", MsgMastPulse)
             /\ self.mast = NoObject
             /\ ret.mastu.kind = "return"
             /\ io = archive_reads(MASTU_signals, call.pulse)
        ELSE /\ ret.mastu = Raised("ValueError", MsgMastuPulse)
             /\ self.mastu = NoObject
             /\ ret.mast.kind = "return"
             /\ io = archive_reads(MAST_signals, call.pulse)

\* pulse 40000 itself: refused by MASTEquilibrium, read by MASTUEquilibrium
C17_Witness ==
    /\ PulseDone
    /\ call.pulse = Pulse(TRUE, 40000)
    /\ ret.mast.kind = "raise"
    /\ ret.mastu.kind = "return"
    /\ Len(io) > 1
    /\ io[1] = EvClient

=============================================================================
